---------------------------- MODULE Spec2Model ----------------------------
(***************************************************************************)
(* Tank-telemetry relay: the publisher service (src/publisher.js) and the  *)
(* two alert subscribers (src/unnamed/part_000: the logging variant, lines *)
(* 1-75, and the webhook variant, lines 77-172).                           *)
(*                                                                         *)
(* Units.  A tank level is a JavaScript number; the model carries it as an *)
(* integer count of 1/LevelScale percent (LevelScale = 2^8, so every level *)
(* of the model is a double and LOW_LEVEL_THRESHOLD - level is computed    *)
(* exactly).  A deficit, the result of Number(x.toFixed(2)), is carried as *)
(* an integer count of hundredths.                                         *)
(***************************************************************************)
EXTENDS Integers, Sequences, FiniteSets, TLC

VARIABLES
    now,           \* the wall clock read by new Date()
    evalRooms,     \* evaluator runs: the rooms array handed to checkTankLevels
    evalRuns,      \* evaluator runs: what each call of checkTankLevels produced
    pubProc,       \* publisher process: "running" | "exited" | "crashed"
    tankAlertLog,  \* publisher: events appended to logs/tank-alerts.log
    last,          \* publisher: the request handled last and all it caused
    variant,       \* subscriber: which of the two programs runs
    conProc,       \* subscriber process: "running" | "exited" | "crashed"
    inbox,         \* subscriber: messages of tankscape/alerts not yet handled
    console,       \* subscriber: how often logToConsole printed each of its lines
    lastMsg,       \* subscriber: the message handled last and what it caused
    inflight,      \* subscriber: the handled messages whose POST awaits its response
    posts,         \* subscriber: the POSTs issued for each handled message
    lastSettle     \* subscriber: the POST settled last and what was logged for it

vars == <<now, evalRooms, evalRuns, pubProc, tankAlertLog, last,
          variant, conProc, inbox, console, lastMsg, inflight, posts, lastSettle>>

evalVars == <<evalRooms, evalRuns>>
pubVars == <<pubProc, tankAlertLog, last>>
conVars == <<variant, conProc, inbox, console, lastMsg, inflight, posts, lastSettle>>

(***************************************************************************)
(* Bounds of the model.                                                    *)
(***************************************************************************)
MaxRooms == 2      \* rooms in a snapshot
MaxReadings == 2   \* tanks in a snapshot, over all its rooms
MaxFine == 2       \* tanks in a one-room snapshot with off-grid levels
MaxClock == 2      \* last clock value
MaxRuns == 2       \* evaluator runs on one snapshot
MaxLog == 2        \* entries of tank-alerts.log
MaxMessages == 3   \* messages the broker delivers to a subscriber
MaxInbox == 2      \* messages waiting at a subscriber

(***************************************************************************)
(* Constants of the program.                                               *)
(***************************************************************************)
LOW_LEVEL_THRESHOLD == 25
HIGH_LEVEL_THRESHOLD == 90
MQTT_TOPIC == "tankscape/tanks"
MQTT_ALERT_TOPIC == "tankscape/alerts"
WEBHOOK_URL == "your-webhook-url"

LevelScale == 2 ^ 8

\* A whole-percent level in model units.
Pct(p) == p * LevelScale

SeqsUpTo(S, n) == UNION {[1..k -> S] : k \in 0..n}

(***************************************************************************)
(* Number.prototype.toFixed(2) followed by Number(): x is a count of       *)
(* 1/LevelScale; the result is the count n of hundredths for which         *)
(* n/100 - x is closest to zero, the larger n on a tie; a negative x is    *)
(* formatted as "-" followed by the digits of -x.                          *)
(***************************************************************************)
ToFixed2(x) ==
    IF x >= 0 THEN (x * 100 + LevelScale \div 2) \div LevelScale
    ELSE -(((-x) * 100 + LevelScale \div 2) \div LevelScale)

(***************************************************************************)
(* checkTankLevels (publisher.js 81-119).                                  *)
(***************************************************************************)
\* The filter predicate, tank => tank.level <= LOW_LEVEL_THRESHOLD; a tank
\* object without a level has level undefined, and undefined <= 25 is false.
IsLowStrict(tank) == "level" \in DOMAIN tank /\ tank.level < Pct(LOW_LEVEL_THRESHOLD)
IsLow(tank) == "level" \in DOMAIN tank /\ tank.level <= Pct(LOW_LEVEL_THRESHOLD)

lowTanks(room) == SelectSeq(room.tanks, IsLow)

DeficitReversed(tank) == ToFixed2(tank.level - Pct(LOW_LEVEL_THRESHOLD))
Deficit(tank) == ToFixed2(Pct(LOW_LEVEL_THRESHOLD) - tank.level)

TankDetail(tank) ==
    [id |-> tank.id,
     name |-> tank.name,
     level |-> tank.level,
     lastUpdated |-> tank.lastUpdated,
     threshold |-> LOW_LEVEL_THRESHOLD,
     deficit |-> Deficit(tank)]

RoomSummary(room) ==
    [roomId |-> room.id,
     totalTanks |-> Len(room.tanks),
     lowLevelTanks |-> Len(lowTanks(room)),
     tanks |-> [i \in 1..Len(lowTanks(room)) |-> TankDetail(lowTanks(room)[i])]]

\* The reducer's step: acc.push(summary) only if lowTanks.length > 0.
ReduceStepAlways(acc, room) == Append(acc, RoomSummary(room))
ReduceStep(acc, room) ==
    IF Len(lowTanks(room)) > 0 THEN Append(acc, RoomSummary(room)) ELSE acc

\* The reducer's initial accumulator: a fresh [] on every call.
ReduceInitShared ==
    IF evalRuns # <<>> /\ evalRuns[Len(evalRuns)] # <<>>
    THEN evalRuns[Len(evalRuns)][1].details.rooms
    ELSE <<>>
ReduceInit == <<>>

RECURSIVE Reduce(_, _)
Reduce(acc, rooms) ==
    IF rooms = <<>> THEN acc ELSE Reduce(ReduceStep(acc, Head(rooms)), Tail(rooms))

lowLevelTanks(rooms) == Reduce(ReduceInit, rooms)

\* rooms.reduce((sum, room) => sum + room.tanks.length, 0)
RECURSIVE totalTanks(_)
totalTanks(rooms) ==
    IF rooms = <<>> THEN 0 ELSE Len(Head(rooms).tanks) + totalTanks(Tail(rooms))

alertData(rooms, t1, t2) ==
    [event |-> "LOW_LEVEL_ALERT",
     timestamp |-> t1,
     details |-> [timestamp |-> t2,
                  totalRooms |-> Len(rooms),
                  totalTanks |-> totalTanks(rooms),
                  rooms |-> lowLevelTanks(rooms)],
     mqttTopic |-> MQTT_ALERT_TOPIC]

\* The alerts one call builds, publishes and logs: none or one.  t1 and t2
\* are the two readings of the clock (lines 106 and 108).
checkTankLevels(rooms, t1, t2) ==
    IF Len(lowLevelTanks(rooms)) > 0 THEN <<alertData(rooms, t1, t2)>> ELSE <<>>

\* The clock readings a synchronous piece of code can get: the clock may
\* advance between two readings.
ClockReadings == {<<now, t>> : t \in {now, IF now < MaxClock THEN now + 1 ELSE now}}

(***************************************************************************)
(* Request bodies.                                                         *)
(***************************************************************************)
NullCell == 0 - 1
CoarseLevels == {Pct(10), Pct(LOW_LEVEL_THRESHOLD), Pct(26)}
FineLevels == {0, Pct(10), Pct(LOW_LEVEL_THRESHOLD) - 32, Pct(LOW_LEVEL_THRESHOLD) - 1,
               Pct(LOW_LEVEL_THRESHOLD), Pct(LOW_LEVEL_THRESHOLD) + 1, Pct(HIGH_LEVEL_THRESHOLD), Pct(100)}

\* A tank of the request body; a null cell is the JSON value null.
MkTank(r, k, cell) ==
    IF cell = NullCell THEN [null |-> TRUE]
    ELSE [id |-> 10 * r + k, name |-> <<"Tank", r, k>>, level |-> cell, lastUpdated |-> k]

MkRoom(r, cells) == [id |-> r, tanks |-> [k \in 1..Len(cells) |-> MkTank(r, k, cells[k])]]

\* Lists of `count` rooms numbered from `first`, holding at most `budget`
\* tanks in all; with `malformed`, a tank may be null and a room may lack
\* its tanks array.
RECURSIVE RoomLists(_, _, _, _)
RoomLists(first, count, budget, malformed) ==
    IF count = 0 THEN {<<>>}
    ELSE LET cells == CoarseLevels \cup (IF malformed THEN {NullCell} ELSE {})
             heads == {MkRoom(first, l) : l \in SeqsUpTo(cells, budget)}
                      \cup (IF malformed THEN {[id |-> first]} ELSE {})
             used(h) == IF "tanks" \in DOMAIN h THEN Len(h.tanks) ELSE 0
         IN UNION {{<<h>> \o rest :
                       rest \in RoomLists(first + 1, count - 1, budget - used(h), malformed)} :
                   h \in heads}

FineRooms == {<<MkRoom(1, l)>> : l \in SeqsUpTo(FineLevels, MaxFine) \ {<<>>}}

\* Well-formed rooms arrays: what the evaluator is ever called with.
EvalSnapshots == UNION {RoomLists(1, r, MaxReadings, FALSE) : r \in 0..MaxRooms} \cup FineRooms

(***************************************************************************)
(* Evaluator runs: checkTankLevels applied again and again to one rooms    *)
(* array while the clock advances.                                         *)
(***************************************************************************)
PubIdle ==
    /\ pubProc = "running"
    /\ tankAlertLog = <<>>
    /\ last = [handled |-> FALSE]

ConIdleAs(v) ==
    /\ variant = v
    /\ conProc = "running"
    /\ inbox = <<>>
    /\ console = [received |-> 0, parseFailed |-> 0, webhookSent |-> 0, webhookFailed |-> 0]
    /\ lastMsg = [handled |-> FALSE]
    /\ inflight = {}
    /\ posts = <<>>
    /\ lastSettle = [settled |-> FALSE]

ConIdle == ConIdleAs("logging")

InitEval ==
    /\ now = 0
    /\ evalRooms \in EvalSnapshots
    /\ evalRuns = <<>>
    /\ PubIdle
    /\ ConIdle

Tick ==
    /\ now < MaxClock
    /\ now' = now + 1

EvalTick == Tick /\ UNCHANGED <<evalVars, pubVars, conVars>>

Evaluate ==
    /\ Len(evalRuns) < MaxRuns
    /\ \E tt \in ClockReadings :
          /\ evalRuns' = Append(evalRuns, checkTankLevels(evalRooms, tt[1], tt[2]))
          /\ now' = tt[2]
    /\ UNCHANGED <<evalRooms, pubVars, conVars>>

NextEval == Evaluate \/ EvalTick

SpecEval == InitEval /\ [][NextEval]_vars

(***************************************************************************)
(* Properties of the evaluator, checked under SpecEval.                    *)
(***************************************************************************)
\* The alerts built by the runs so far.
EvalAlerts == {evalRuns[i][1] : i \in {j \in 1..Len(evalRuns) : evalRuns[j] # <<>>}}

\* The per-reading details an alert lists under a room id.
ListedUnder(a, roomId) ==
    UNION {{a.details.rooms[j].tanks[m] : m \in 1..Len(a.details.rooms[j].tanks)} :
              j \in {n \in 1..Len(a.details.rooms) : a.details.rooms[n].roomId = roomId}}

TanksOf(room) == {room.tanks[k] : k \in 1..Len(room.tanks)}

AtOrBelowLow(level) == level <= LOW_LEVEL_THRESHOLD * LevelScale

\* C3: in every alert, a reading of a room is listed in that room's detail
\* if and only if its level is <= LOW_LEVEL_THRESHOLD (25): a reading at
\* exactly 25 is listed, a reading above 25 (also one at or above the unused
\* HIGH_LEVEL_THRESHOLD) is not, and nothing else is listed.
C3_ListedIffAtOrBelowThreshold ==
    \A a \in EvalAlerts : \A i \in 1..Len(evalRooms) :
        LET room == evalRooms[i]
            listed == {<<d.id, d.level>> : d \in ListedUnder(a, room.id)}
        IN /\ \A t \in TanksOf(room) : (<<t.id, t.level>> \in listed) <=> AtOrBelowLow(t.level)
           /\ listed \subseteq {<<t.id, t.level>> : t \in TanksOf(room)}

C3_Witness ==
    \E a \in EvalAlerts : \E i \in 1..Len(evalRooms) :
        \E t, u \in TanksOf(evalRooms[i]) :
            /\ t.level = LOW_LEVEL_THRESHOLD * LevelScale
            /\ u.level >= HIGH_LEVEL_THRESHOLD * LevelScale
            /\ t.id \in {d.id : d \in ListedUnder(a, evalRooms[i].id)}
            /\ u.id \notin {d.id : d \in ListedUnder(a, evalRooms[i].id)}

\* The indexes of the rooms that hold at least one reading at or below the
\* threshold, and the k-th smallest of them.
QualifyingRooms ==
    {i \in 1..Len(evalRooms) : \E t \in TanksOf(evalRooms[i]) : AtOrBelowLow(t.level)}

KthQualifying(k) ==
    CHOOSE i \in QualifyingRooms : Cardinality({j \in QualifyingRooms : j < i}) = k - 1

\* C4: in every alert the summarized rooms are exactly the rooms with at
\* least one qualifying reading, in the order of the snapshot; each summary
\* records the room's count of all readings and a qualifying count equal to
\* the number of details listed; a room with no qualifying reading is absent.
C4_SummariesAreQualifyingRoomsInOrder ==
    \A a \in EvalAlerts :
        /\ Len(a.details.rooms) = Cardinality(QualifyingRooms)
        /\ \A k \in 1..Len(a.details.rooms) :
              LET s == a.details.rooms[k]
                  room == evalRooms[KthQualifying(k)]
              IN /\ s.roomId = room.id
                 /\ s.totalTanks = Len(room.tanks)
                 /\ s.lowLevelTanks = Len(s.tanks)
                 /\ s.lowLevelTanks = Cardinality({t \in TanksOf(room) : AtOrBelowLow(t.level)})

C4_Witness ==
    \E a \in EvalAlerts :
        /\ Len(evalRooms) >= 2
        /\ Len(a.details.rooms) = 1
        /\ a.details.rooms[1].roomId = evalRooms[2].id
        /\ a.details.rooms[1].totalTanks = 1
        /\ evalRooms[1].tanks # <<>>

\* Every per-reading detail of every alert.
AllDetails ==
    UNION {UNION {{a.details.rooms[j].tanks[m] : m \in 1..Len(a.details.rooms[j].tanks)} :
                     j \in 1..Len(a.details.rooms)} :
              a \in EvalAlerts}

\* C5 as claimed: every listed reading records the low threshold and a
\* deficit equal to threshold minus level, which is >= 0 and is 0 exactly
\* when the level is at the threshold.
C5_DeficitIsExactDifference ==
    \A d \in AllDetails :
        /\ d.threshold = LOW_LEVEL_THRESHOLD
        /\ d.deficit * LevelScale = (LOW_LEVEL_THRESHOLD * LevelScale - d.level) * 100
        /\ d.deficit >= 0
        /\ (d.deficit = 0 <=> d.level = LOW_LEVEL_THRESHOLD * LevelScale)

\* C5 (amended): every listed reading records the low threshold and a
\* deficit equal to threshold minus level rounded to two decimals (never
\* level minus threshold): it is within 0.005 of the difference, it is >= 0,
\* it is 0 exactly when the difference is below 0.005, and a reading at
\* level 10 has deficit 15.
C5_DeficitIsRoundedDifference ==
    \A d \in AllDetails :
        LET diff == LOW_LEVEL_THRESHOLD * LevelScale - d.level   \* in 1/LevelScale
            err == d.deficit * LevelScale - diff * 100           \* in 1/(100*LevelScale)
        IN /\ d.threshold = LOW_LEVEL_THRESHOLD
           /\ 2 * err <= LevelScale /\ 2 * err > -LevelScale
           /\ d.deficit >= 0
           /\ (d.deficit = 0 <=> 200 * diff < LevelScale)
           /\ (d.level = 10 * LevelScale => d.deficit = 1500)

C5_Witness ==
    /\ \E d \in AllDetails : d.level = 10 * LevelScale /\ d.deficit = 1500
    /\ \E d \in AllDetails : d.level = LOW_LEVEL_THRESHOLD * LevelScale - 32 /\ d.deficit = 13

\* An alert without its two clock readings.
WithoutTimestamps(a) ==
    [event |-> a.event,
     totalRooms |-> a.details.totalRooms,
     totalTanks |-> a.details.totalTanks,
     rooms |-> a.details.rooms,
     mqttTopic |-> a.mqttTopic]

JSONstringify(value) == [json |-> value]

\* Request bodies after express.json(): a snapshot, or an object without a
\* rooms array, or with a room without a tanks array, or with a null tank.
Bodies ==
    {[timestamp |-> 0, rooms |-> rooms] : rooms \in EvalSnapshots}
    \cup {[timestamp |-> 0]}
    \cup {[timestamp |-> 0, rooms |-> rooms \o <<[id |-> Len(rooms) + 1]>>] :
             rooms \in UNION {RoomLists(1, r, 1, FALSE) : r \in 0..1}}
    \cup {[timestamp |-> 0, rooms |-> <<MkRoom(1, cells \o <<NullCell>>)>>] :
             cells \in SeqsUpTo(CoarseLevels, 1)}

\* Lines 127-131, the "Received tank data" log: data.rooms.length and
\* room.tanks.length throw a TypeError when rooms, or a room's tanks, is
\* undefined.
receivedLogThrows(data) ==
    \/ "rooms" \notin DOMAIN data
    \/ \E i \in 1..Len(data.rooms) : "tanks" \notin DOMAIN data.rooms[i]

\* Line 142: tank => tank.level <= LOW_LEVEL_THRESHOLD.
IsLowInHandlerStrict(tank) == "level" \in DOMAIN tank /\ tank.level < Pct(LOW_LEVEL_THRESHOLD)
IsLowInHandler(tank) == "level" \in DOMAIN tank /\ tank.level <= Pct(LOW_LEVEL_THRESHOLD)

HasTanks(room) == Len(room.tanks) > 0

\* Lines 138-144: the rooms with their low tanks only, empty rooms dropped.
lowLevelData(data) ==
    [data EXCEPT !.rooms =
        SelectSeq([i \in 1..Len(data.rooms) |->
                      [data.rooms[i] EXCEPT !.tanks = SelectSeq(data.rooms[i].tanks, IsLowInHandler)]],
                  HasTanks)]

\* Line 142 reads tank.level of every tank: a null tank throws a TypeError.
filterThrows(data) ==
    \E i \in 1..Len(data.rooms) : \E k \in 1..Len(data.rooms[i].tanks) :
        "null" \in DOMAIN data.rooms[i].tanks[k]

\* Line 134: client.publish(MQTT_TOPIC, JSON.stringify(data)).
rawPublishesFiltered(data) ==
    <<[topic |-> MQTT_TOPIC, payload |-> JSONstringify(lowLevelData(data))]>>
rawPublishesPerRoom(data) ==
    [i \in 1..Len(data.rooms) |-> [topic |-> MQTT_TOPIC, payload |-> JSONstringify(data)]]
rawPublishes(data) == <<[topic |-> MQTT_TOPIC, payload |-> JSONstringify(data)]>>

\* Line 116: client.publish(MQTT_ALERT_TOPIC, JSON.stringify(alertData)).
alertPublishes(alerts) ==
    [i \in 1..Len(alerts) |-> [topic |-> MQTT_ALERT_TOPIC, payload |-> JSONstringify(alerts[i])]]

\* The catch block, lines 164-173: an ERROR record is logged and the answer
\* is 500 {error: 'Failed to publish data'}; what was published stays so.
\* (Without the try, the TypeError would end the process unanswered.)
uncaught(published, passes, t) ==
    [status |-> 0, crash |-> TRUE, pubs |-> published, logs |-> <<>>, evals |-> 0,
     passes |-> passes]
caught(published, passes, t) ==
    [status |-> 500,
     crash |-> FALSE,
     pubs |-> published,
     logs |-> <<[event |-> "ERROR", timestamp |-> t, error |-> "TypeError"]>>,
     evals |-> 0,
     passes |-> passes]

\* The try block, statement by statement.  evals counts the calls of
\* checkTankLevels, passes the times the threshold filter ran over the rooms
\* (line 142, and line 83 inside checkTankLevels).
handle(data, t1, t2) ==
    IF receivedLogThrows(data) THEN caught(<<>>, 0, t1)
    ELSE IF filterThrows(data) THEN caught(rawPublishes(data), 1, t1)
    ELSE IF Len(lowLevelData(data).rooms) > 0
    THEN LET alerts == checkTankLevels(data.rooms, t1, t2)
         IN [status |-> 200,
             crash |-> FALSE,
             pubs |-> rawPublishes(data) \o alertPublishes(alerts),
             logs |-> alerts,
             evals |-> 1,
             passes |-> 2]
    ELSE [status |-> 200, crash |-> FALSE, pubs |-> rawPublishes(data), logs |-> <<>>,
          evals |-> 0, passes |-> 1]

\* logAlert (lines 39-44) appends one record per call; the model keeps the
\* event of each record.
Events(logs) == [i \in 1..Len(logs) |-> logs[i].event]

EvalIdle == evalRooms = <<>> /\ evalRuns = <<>>

Init ==
    /\ now = 0
    /\ EvalIdle
    /\ PubIdle
    /\ ConIdle

\* One request to POST /publish, handled to its answer; the handler is
\* synchronous, so nothing else runs in between.  At most one request's
\* answer and messages are kept in flight.
Publish ==
    /\ pubProc = "running"
    /\ ~last.handled
    /\ \E data \in Bodies : \E tt \in ClockReadings :
          \E out \in {handle(data, tt[1], tt[2])} :
             /\ Len(tankAlertLog) + Len(out.logs) <= MaxLog
             /\ last' = [handled |-> TRUE,
                         body |-> data,
                         status |-> out.status,
                         pubs |-> out.pubs,
                         logs |-> out.logs,
                         evals |-> out.evals,
                         passes |-> out.passes,
                         logBefore |-> Len(tankAlertLog)]
             /\ tankAlertLog' = tankAlertLog \o Events(out.logs)
             /\ pubProc' = IF out.crash THEN "crashed" ELSE pubProc
             /\ now' = tt[2]
    /\ UNCHANGED <<evalVars, conVars>>

\* The answer reaches the caller and the published messages the broker.
Deliver ==
    /\ last.handled
    /\ last' = [handled |-> FALSE]
    /\ UNCHANGED <<now, pubProc, tankAlertLog, evalVars, conVars>>

\* client.on('error') (lines 68-75): an MQTT_ERROR record is logged.
MqttError ==
    /\ pubProc = "running"
    /\ Len(tankAlertLog) < MaxLog
    /\ tankAlertLog' = Append(tankAlertLog, "MQTT_ERROR")
    /\ UNCHANGED <<now, pubProc, last, evalVars, conVars>>

\* SIGTERM / SIGINT (lines 182-192): client.end() and process.exit(0).
PubShutdown ==
    /\ pubProc = "running"
    /\ pubProc' = "exited"
    /\ UNCHANGED <<now, tankAlertLog, last, evalVars, conVars>>

PubTick == Tick /\ UNCHANGED <<evalVars, pubVars, conVars>>

Next == Publish \/ Deliver \/ MqttError \/ PubShutdown \/ PubTick

Spec == Init /\ [][Next]_vars

(***************************************************************************)
(* Properties of the publisher, checked under Spec.                        *)
(***************************************************************************)
\* The body has a rooms array and every room of it a tanks array.
HasWellFormedRooms(body) ==
    /\ "rooms" \in DOMAIN body
    /\ \A i \in 1..Len(body.rooms) : "tanks" \in DOMAIN body.rooms[i]

\* The body is a Snapshot: rooms of tanks, every tank an object.
IsSnapshot(body) ==
    /\ HasWellFormedRooms(body)
    /\ \A i \in 1..Len(body.rooms) : \A k \in 1..Len(body.rooms[i].tanks) :
          "level" \in DOMAIN body.rooms[i].tanks[k]

SomeReadingQualifies(body) ==
    \E i \in 1..Len(body.rooms) : \E k \in 1..Len(body.rooms[i].tanks) :
        AtOrBelowLow(body.rooms[i].tanks[k].level)

SomeReadingAbove(body) ==
    \E i \in 1..Len(body.rooms) : \E k \in 1..Len(body.rooms[i].tanks) :
        ~AtOrBelowLow(body.rooms[i].tanks[k].level)

PubsOn(topic) == {i \in 1..Len(last.pubs) : last.pubs[i].topic = topic}

AlertRecords == {i \in 1..Len(last.logs) : last.logs[i].event = "LOW_LEVEL_ALERT"}

\* C1: a request whose body has a well-formed rooms collection publishes
\* the body on the raw-data topic exactly once, the payload being the body
\* as received (nothing filtered out), whether or not a reading qualifies,
\* and before any alert of that request.
C1_RawPublishedOnceUnmodifiedFirst ==
    last.handled /\ HasWellFormedRooms(last.body) =>
        /\ Cardinality(PubsOn(MQTT_TOPIC)) = 1
        /\ \A i \in PubsOn(MQTT_TOPIC) :
              /\ last.pubs[i].payload.json = last.body
              /\ \A j \in PubsOn(MQTT_ALERT_TOPIC) : i < j

C1_Witness ==
    /\ last.handled
    /\ IsSnapshot(last.body)
    /\ SomeReadingAbove(last.body)
    /\ PubsOn(MQTT_ALERT_TOPIC) # {}
    /\ last.pubs[1].payload.json = last.body

\* C2: for every ingested Snapshot an alert is published on the alerts topic
\* and appended to the alert log if and only if some room has some reading
\* with level <= the low threshold; when none qualifies (also with no rooms)
\* no alert is published and no record is logged.
C2_AlertIffSomeReadingQualifies ==
    last.handled /\ IsSnapshot(last.body) =>
        /\ (PubsOn(MQTT_ALERT_TOPIC) # {}) <=> SomeReadingQualifies(last.body)
        /\ (AlertRecords # {}) <=> SomeReadingQualifies(last.body)
        /\ ~SomeReadingQualifies(last.body) => last.logs = <<>>
        /\ \A i \in PubsOn(MQTT_ALERT_TOPIC) : last.pubs[i].payload.json = last.logs[1]
        /\ Len(tankAlertLog) >= last.logBefore + Len(last.logs)
        /\ \A i \in 1..Len(last.logs) :
              tankAlertLog[last.logBefore + i] = last.logs[i].event

C2_Witness ==
    /\ last.handled
    /\ IsSnapshot(last.body)
    /\ PubsOn(MQTT_ALERT_TOPIC) # {}
    /\ tankAlertLog[Len(tankAlertLog)] = "LOW_LEVEL_ALERT"
    /\ \A i \in 1..Len(last.body.rooms) : \A k \in 1..Len(last.body.rooms[i].tanks) :
          last.body.rooms[i].tanks[k].level >= LOW_LEVEL_THRESHOLD * LevelScale

\* C7 as claimed: one request triggers at most one evaluation of the
\* threshold rule over the snapshot and at most two publish calls, at most
\* one per topic.
C7_OneEvaluationTwoPublishes ==
    last.handled =>
        /\ last.passes <= 1
        /\ Len(last.pubs) <= 2
        /\ Cardinality(PubsOn(MQTT_TOPIC)) <= 1
        /\ Cardinality(PubsOn(MQTT_ALERT_TOPIC)) <= 1

\* C7 (amended): one request triggers at most one call of the evaluator
\* checkTankLevels, made only after the handler has itself run the threshold
\* filter over the snapshot once (so the rule runs over the snapshot at most
\* twice), and at most two publish calls, at most one per topic.
C7_OneEvaluatorCallTwoPublishes ==
    last.handled =>
        /\ last.evals <= 1
        /\ last.passes <= 2
        /\ last.passes = 2 <=> last.evals = 1
        /\ Len(last.pubs) <= 2
        /\ Cardinality(PubsOn(MQTT_TOPIC)) <= 1
        /\ Cardinality(PubsOn(MQTT_ALERT_TOPIC)) <= 1

C7_Witness ==
    /\ last.handled
    /\ last.evals = 1
    /\ Len(last.pubs) = 2
    /\ Len(last.body.rooms) = MaxRooms

\* C8: a request whose body lacks the rooms collection is answered with the
\* failure response (500, never 200) and publishes nothing; the process
\* never crashes; and a Snapshot is answered 200 whatever was handled before.
C8_MissingRoomsAnsweredWithFailure ==
    /\ pubProc # "crashed"
    /\ last.handled /\ "rooms" \notin DOMAIN last.body =>
          /\ last.status = 500
          /\ last.pubs = <<>>
          /\ Len(last.logs) = 1 /\ last.logs[1].event = "ERROR"
    /\ last.handled /\ IsSnapshot(last.body) =>
          /\ last.status = 200
          /\ PubsOn(MQTT_TOPIC) # {}

C8_Witness ==
    /\ last.handled
    /\ IsSnapshot(last.body)
    /\ last.status = 200
    /\ pubProc = "running"
    /\ last.logBefore > 0
    /\ tankAlertLog[last.logBefore] = "ERROR"

(***************************************************************************)
(* The alert subscribers (unnamed/part_000): the logging variant, lines    *)
(* 1-75, and the webhook variant, lines 77-172.                            *)
(***************************************************************************)
\* A message payload is JSON text written by JSON.stringify, [json |-> v],
\* or any other text, [text |-> tokens], given as its sequence of tokens
\* (white space dropped).
NumberTokens == {"0", "1"}
StringTokens == {"\"event\"", "\"\""}
LiteralTokens == {"null", "true", "false"}

ParseFails == [ok |-> FALSE]

\* JSON.parse on a token sequence: the value that starts at token i and the
\* index of the token after it, by the grammar of ECMA-404.
RECURSIVE ParseValue(_, _)
RECURSIVE ParseElements(_, _, _)
RECURSIVE ParseMembers(_, _, _)
ParseValue(t, i) ==
    IF i > Len(t) THEN ParseFails
    ELSE IF t[i] \in NumberTokens THEN [ok |-> TRUE, value |-> [num |-> t[i]], next |-> i + 1]
    ELSE IF t[i] \in StringTokens THEN [ok |-> TRUE, value |-> [str |-> t[i]], next |-> i + 1]
    ELSE IF t[i] \in LiteralTokens THEN [ok |-> TRUE, value |-> [lit |-> t[i]], next |-> i + 1]
    ELSE IF t[i] = "["
    THEN IF i < Len(t) /\ t[i + 1] = "]"
         THEN [ok |-> TRUE, value |-> [arr |-> <<>>], next |-> i + 2]
         ELSE ParseElements(t, i + 1, <<>>)
    ELSE IF t[i] = "{"
    THEN IF i < Len(t) /\ t[i + 1] = "}"
         THEN [ok |-> TRUE, value |-> [obj |-> <<>>], next |-> i + 2]
         ELSE ParseMembers(t, i + 1, <<>>)
    ELSE ParseFails

ParseElements(t, i, acc) ==
    LET r == ParseValue(t, i)
    IN IF ~r.ok \/ r.next > Len(t) THEN ParseFails
       ELSE IF t[r.next] = "," THEN ParseElements(t, r.next + 1, Append(acc, r.value))
       ELSE IF t[r.next] = "]"
       THEN [ok |-> TRUE, value |-> [arr |-> Append(acc, r.value)], next |-> r.next + 1]
       ELSE ParseFails

ParseMembers(t, i, acc) ==
    IF i + 1 > Len(t) \/ t[i] \notin StringTokens \/ t[i + 1] # ":" THEN ParseFails
    ELSE LET r == ParseValue(t, i + 2)
         IN IF ~r.ok \/ r.next > Len(t) THEN ParseFails
            ELSE IF t[r.next] = ","
            THEN ParseMembers(t, r.next + 1, Append(acc, [key |-> t[i], value |-> r.value]))
            ELSE IF t[r.next] = "}"
            THEN [ok |-> TRUE,
                  value |-> [obj |-> Append(acc, [key |-> t[i], value |-> r.value])],
                  next |-> r.next + 1]
            ELSE ParseFails

\* JSON.parse(message.toString()): the value, or a SyntaxError.
JSONparse(payload) ==
    IF "json" \in DOMAIN payload THEN [ok |-> TRUE, value |-> payload.json]
    ELSE LET r == ParseValue(payload.text, 1)
         IN IF r.ok /\ r.next = Len(payload.text) + 1
            THEN [ok |-> TRUE, value |-> r.value]
            ELSE ParseFails

\* What `if (data)` of logToConsole takes for true.
Truthy(value) ==
    /\ "lit" \in DOMAIN value => value.lit = "true"
    /\ "num" \in DOMAIN value => value.num # "0"
    /\ "str" \in DOMAIN value => value.str # "\"\""

\* logToConsole(type, message, data): the head line, and the data if truthy.
logToConsole(type, message, data, truthy) ==
    [type |-> type, message |-> message, data |-> IF truthy THEN <<data>> ELSE <<>>]

\* client.on('message') (lines 50-57 and 146-154): parse inside try; the
\* webhook variant then calls sendWebhook(data); the catch logs the text.
onMessageUnguarded(payload, forwards) ==
    LET r == JSONparse(payload)
    IN IF r.ok
       THEN [crash |-> FALSE, parsed |-> TRUE,
             logged |-> logToConsole("INFO", "Received message", r.value, Truthy(r.value)),
             send |-> IF forwards THEN <<JSONstringify(r.value)>> ELSE <<>>]
       ELSE [crash |-> TRUE, parsed |-> FALSE, logged |-> <<>>, send |-> <<>>]
onMessage(payload, forwards) ==
    LET r == JSONparse(payload)
    IN IF r.ok
       THEN [crash |-> FALSE, parsed |-> TRUE,
             logged |-> logToConsole("INFO", "Received message", r.value, Truthy(r.value)),
             send |-> IF forwards THEN <<JSONstringify(r.value)>> ELSE <<>>]
       ELSE [crash |-> FALSE, parsed |-> FALSE,
             logged |-> logToConsole("ERROR", "Failed to parse message", payload,
                                     payload.text # <<>>),
             send |-> <<>>]

\* sendWebhook after the await (lines 113-119): a response that is not ok
\* throws, a rejected fetch throws, and the catch logs; nothing is re-sent.
settleRetrying(result) ==
    IF result = "ok"
    THEN [crash |-> FALSE, retry |-> FALSE,
          logged |-> logToConsole("SUCCESS", "Webhook sent successfully", <<>>, FALSE)]
    ELSE [crash |-> FALSE, retry |-> TRUE,
          logged |-> logToConsole("ERROR", "Failed to send webhook", result, TRUE)]
settle(result) ==
    IF result = "ok"
    THEN [crash |-> FALSE, retry |-> FALSE,
          logged |-> logToConsole("SUCCESS", "Webhook sent successfully", <<>>, FALSE)]
    ELSE [crash |-> FALSE, retry |-> FALSE,
          logged |-> logToConsole("ERROR", "Failed to send webhook", result, TRUE)]

\* How a fetch ends: a 2xx response, another response, or a rejection (no
\* connection, or a WEBHOOK_URL that is no URL).
FetchResults == {"ok", "non2xx", "rejected"}

\* Messages on tankscape/alerts: an alert of the publisher, and texts of
\* any other client of the broker, well-formed or not.
SampleAlert == alertData(<<MkRoom(1, <<Pct(10)>>)>>, 0, 0)
WellFormedTexts == {<<"null">>, <<"[", "1", ",", "0", "]">>, <<"{", "\"event\"", ":", "1", "}">>}
MalformedTexts == {<<>>, <<"LOW_LEVEL_ALERT">>, <<"{", "\"event\"", ":", "1">>, <<"[", "1", ",", "]">>}
Payloads ==
    {JSONstringify(SampleAlert)} \cup {[text |-> t] : t \in WellFormedTexts \cup MalformedTexts}

InitConsumer ==
    /\ now = 0
    /\ EvalIdle
    /\ PubIdle
    /\ \E v \in {"logging", "webhook"} : ConIdleAs(v)

Handled == Len(posts)

\* The broker hands the subscriber one message of the topic.
BrokerDelivers ==
    /\ conProc = "running"
    /\ Len(inbox) < MaxInbox
    /\ Handled + Len(inbox) < MaxMessages
    /\ \E payload \in Payloads : inbox' = Append(inbox, payload)
    /\ UNCHANGED <<now, evalVars, pubVars, variant, conProc, console, lastMsg, inflight,
                   posts, lastSettle>>

\* The 'message' handler runs on the oldest waiting message.
OnMessage(forwards) ==
    /\ conProc = "running"
    /\ inbox # <<>>
    /\ \E out \in {onMessage(Head(inbox), forwards)} :
          /\ inbox' = Tail(inbox)
          /\ conProc' = IF out.crash THEN "crashed" ELSE conProc
          /\ console' = IF out.crash THEN console
                        ELSE IF out.parsed
                        THEN [console EXCEPT !.received = @ + 1]
                        ELSE [console EXCEPT !.parseFailed = @ + 1]
          /\ posts' = Append(posts, Len(out.send))
          /\ inflight' = IF out.send # <<>> THEN inflight \cup {Handled + 1} ELSE inflight
          /\ lastMsg' = [handled |-> TRUE,
                         payload |-> Head(inbox),
                         parsed |-> out.parsed,
                         logged |-> out.logged,
                         sent |-> out.send,
                         failuresBefore |-> console.webhookFailed]
    /\ UNCHANGED <<now, evalVars, pubVars, variant, lastSettle>>

OnMessageLogging == variant = "logging" /\ OnMessage(FALSE)

OnMessageWebhook == variant = "webhook" /\ OnMessage(TRUE)

\* The fetch of one POST ends and sendWebhook resumes after its await.
WebhookSettles ==
    /\ conProc = "running"
    /\ \E n \in inflight : \E result \in FetchResults : \E out \in {settle(result)} :
          /\ conProc' = IF out.crash THEN "crashed" ELSE conProc
          /\ console' = IF result = "ok"
                        THEN [console EXCEPT !.webhookSent = @ + 1]
                        ELSE [console EXCEPT !.webhookFailed = @ + 1]
          /\ posts' = IF out.retry THEN [posts EXCEPT ![n] = @ + 1] ELSE posts
          /\ inflight' = IF out.retry THEN inflight ELSE inflight \ {n}
          /\ lastSettle' = [settled |-> TRUE, of |-> n, result |-> result, logged |-> out.logged]
    /\ UNCHANGED <<now, evalVars, pubVars, variant, inbox, lastMsg>>

\* SIGTERM / SIGINT (lines 65-75 and 162-172): client.end(), process.exit(0).
ConShutdown ==
    /\ conProc = "running"
    /\ conProc' = "exited"
    /\ UNCHANGED <<now, evalVars, pubVars, variant, inbox, console, lastMsg, inflight,
                   posts, lastSettle>>

NextConsumer ==
    BrokerDelivers \/ OnMessageLogging \/ OnMessageWebhook \/ WebhookSettles \/ ConShutdown

SpecConsumer == InitConsumer /\ [][NextConsumer]_vars

(***************************************************************************)
(* Properties of the subscribers, checked under SpecConsumer.              *)
(***************************************************************************)
RECURSIVE Sum(_)
Sum(counts) == IF counts = <<>> THEN 0 ELSE Head(counts) + Sum(Tail(counts))

IsMalformed(payload) == "text" \in DOMAIN payload /\ payload.text \in MalformedTexts

\* C9: a malformed message on the alerts topic never crashes the subscriber:
\* its text is logged with the parse failure, it is skipped (the webhook
\* variant makes no webhook call for it), and the messages after it are
\* still received and processed, a well-formed one as usual.
C9_MalformedMessageLoggedAndSkipped ==
    /\ conProc # "crashed"
    /\ console.received + console.parseFailed = Handled
    /\ lastMsg.handled /\ IsMalformed(lastMsg.payload) =>
          /\ ~lastMsg.parsed
          /\ lastMsg.logged.type = "ERROR"
          /\ lastMsg.logged.message = "Failed to parse message"
          /\ lastMsg.payload.text # <<>> => lastMsg.logged.data = <<lastMsg.payload>>
          /\ lastMsg.sent = <<>>
          /\ posts[Handled] = 0
    /\ lastMsg.handled /\ ~IsMalformed(lastMsg.payload) =>
          /\ lastMsg.parsed
          /\ lastMsg.logged.type = "INFO"
          /\ Len(lastMsg.sent) = IF variant = "webhook" THEN 1 ELSE 0

C9_Witness ==
    /\ variant = "webhook"
    /\ conProc = "running"
    /\ console.parseFailed >= 1
    /\ lastMsg.handled
    /\ lastMsg.parsed
    /\ lastMsg.sent = <<JSONstringify(SampleAlert)>>

\* C10: in the webhook variant every parsed message causes at most one POST;
\* a failed delivery (a rejected fetch or a response that is not 2xx) is
\* logged and never retried, does not reach the message handler (the
\* process keeps running), and later messages are forwarded all the same.
C10_AtMostOnePostNoRetry ==
    /\ \A n \in 1..Len(posts) : posts[n] <= 1
    /\ variant = "logging" => Sum(posts) = 0
    /\ variant = "webhook" =>
          /\ Sum(posts) = console.received
          /\ Sum(posts) = Cardinality(inflight) + console.webhookSent + console.webhookFailed
          /\ lastMsg.handled /\ lastMsg.parsed => Len(lastMsg.sent) = 1
    /\ lastSettle.settled /\ lastSettle.result # "ok" =>
          /\ lastSettle.logged.type = "ERROR"
          /\ lastSettle.logged.message = "Failed to send webhook"
          /\ lastSettle.of \notin inflight
          /\ console.webhookFailed >= 1
    /\ conProc # "crashed"

C10_Witness ==
    /\ variant = "webhook"
    /\ conProc = "running"
    /\ lastSettle.settled
    /\ lastSettle.result = "non2xx"
    /\ lastMsg.handled
    /\ lastMsg.failuresBefore >= 1
    /\ Len(lastMsg.sent) = 1
    /\ Handled \in inflight

=============================================================================
